---- MODULE Spec2Model ----
(***************************************************************************)
(* A model of the unhtml decoder (decoder.go): one decode call of          *)
(* Decoder.Unmarshal or Decoder.UnmarshalRelative, run step by step over   *)
(* the struct-field loop of state.unmarshalStruct and the node loop of     *)
(* state.multinode, with reflect.Value handles, pointer indirection,       *)
(* strconv parsing and the first-error session state.                      *)
(*                                                                         *)
(* Node content is a sequence of bytes (UTF-8).  The xmlpath query engine  *)
(* is external: the nodes a path matches are an input of each step.        *)
(* Numbers are kept as decimal digit sequences so that 64-bit ranges are   *)
(* compared exactly.                                                       *)
(***************************************************************************)
EXTENDS Integers, Sequences

(***************************************************************************)
(* Bytes, text and decimal digit sequences                                 *)
(***************************************************************************)

\* unicode.IsSpace restricted to one-byte code points: \t \n \v \f \r and ' '
IsSpace(b) == b \in {9, 10, 11, 12, 13, 32}

RECURSIVE TrimLeft(_)
TrimLeft(s) == IF s # <<>> /\ IsSpace(s[1]) THEN TrimLeft(Tail(s)) ELSE s

RECURSIVE TrimRight(_)
TrimRight(s) ==
    IF s # <<>> /\ IsSpace(s[Len(s)]) THEN TrimRight(SubSeq(s, 1, Len(s) - 1)) ELSE s

\* strings.TrimSpace
TrimSpace(s) == TrimRight(TrimLeft(s))

RECURSIVE StripZeros(_)
StripZeros(d) == IF d # <<>> /\ d[1] = 0 THEN StripZeros(Tail(d)) ELSE d

RECURSIVE StripTrailingZeros(_)
StripTrailingZeros(d) ==
    IF d # <<>> /\ d[Len(d)] = 0 THEN StripTrailingZeros(SubSeq(d, 1, Len(d) - 1)) ELSE d

\* a < b for two magnitudes written without leading zeros
DigLess(a, b) ==
    \/ Len(a) < Len(b)
    \/ /\ Len(a) = Len(b)
       /\ \E i \in 1..Len(a) : a[i] < b[i] /\ \A j \in 1..(i - 1) : a[j] = b[j]

Digit(d, i) == IF i <= Len(d) THEN d[i] ELSE 0

\* a < b for two digit sequences read as decimal fractions 0.d1d2d3...
FracLess(a, b) ==
    LET n == IF Len(a) > Len(b) THEN Len(a) ELSE Len(b)
    IN  \E i \in 1..n : Digit(a, i) < Digit(b, i) /\ \A j \in 1..(i - 1) : Digit(a, j) = Digit(b, j)

RECURSIVE NatDigits(_)
NatDigits(n) == IF n = 0 THEN <<>> ELSE Append(NatDigits(n \div 10), n % 10)

RECURSIVE DigitsNat(_)
DigitsNat(d) == IF d = <<>> THEN 0 ELSE 10 * DigitsNat(SubSeq(d, 1, Len(d) - 1)) + d[Len(d)]

\* A number held in a slot: sign, magnitude without leading zeros, and a
\* decimal exponent (0 for the integer kinds).  Floats are kept as the exact
\* decimal that was parsed; rounding to the nearest binary float is not modelled.
Num(neg, mag, exp) == [neg |-> neg /\ mag # <<>>, mag |-> mag, exp |-> IF mag = <<>> THEN 0 ELSE exp]

ZeroNum == Num(FALSE, <<>>, 0)

NumOfNat(n) == Num(FALSE, NatDigits(n), 0)

\* the largest magnitudes of the integer widths (math.MaxInt8 ... math.MaxUint64)
MaxMag(bits, signed) ==
    CASE bits = 8  /\ signed  -> <<1,2,7>>
      [] bits = 8  /\ ~signed -> <<2,5,5>>
      [] bits = 16 /\ signed  -> <<3,2,7,6,7>>
      [] bits = 16 /\ ~signed -> <<6,5,5,3,5>>
      [] bits = 32 /\ signed  -> <<2,1,4,7,4,8,3,6,4,7>>
      [] bits = 32 /\ ~signed -> <<4,2,9,4,9,6,7,2,9,5>>
      [] bits = 64 /\ signed  -> <<9,2,2,3,3,7,2,0,3,6,8,5,4,7,7,5,8,0,7>>
      [] bits = 64 /\ ~signed -> <<1,8,4,4,6,7,4,4,0,7,3,7,0,9,5,5,1,6,1,5>>

\* -2^(bits-1) as a magnitude
MinMag(bits) ==
    CASE bits = 8  -> <<1,2,8>>
      [] bits = 16 -> <<3,2,7,6,8>>
      [] bits = 32 -> <<2,1,4,7,4,8,3,6,4,8>>
      [] bits = 64 -> <<9,2,2,3,3,7,2,0,3,6,8,5,4,7,7,5,8,0,8>>

(***************************************************************************)
(* strconv                                                                 *)
(***************************************************************************)

NoErr == "nil"

Parsed(err, n) == [err |-> err, n |-> n]

\* the place of the first byte of s that is in set B, 0 when there is none
FirstIn(s, B) ==
    IF \A i \in 1..Len(s) : s[i] \notin B THEN 0
    ELSE CHOOSE i \in 1..Len(s) : s[i] \in B /\ \A j \in 1..(i - 1) : s[j] \notin B

\* the place of the first byte of s that is no digit, 0 when all are digits
FirstNonDigit(s) == FirstIn(s, 0..47 \cup 58..255)

DigitsOf(s) == [i \in 1..Len(s) |-> s[i] - 48]

\* the scan of ParseUint once it has stopped: mag is the value of the digits
\* before the first byte that is no digit, bad whether there is such a byte
ParseUintScan(mag, bad) ==
    IF DigLess(MaxMag(64, FALSE), mag) THEN Parsed("ErrRange", Num(FALSE, MaxMag(64, FALSE), 0))
    ELSE IF bad THEN Parsed("ErrSyntax", ZeroNum)
    ELSE Parsed(NoErr, Num(FALSE, mag, 0))

ParseUintFrom(s, bad) ==
    ParseUintScan(StripZeros(DigitsOf(IF bad = 0 THEN s ELSE SubSeq(s, 1, bad - 1))), bad # 0)

\* strconv.ParseUint(s, 10, 64): the scan stops at the first byte that is not
\* a digit (ErrSyntax) or at the first digit that takes the value past 2^64-1
\* (ErrRange), whichever comes first.
ParseUint(s) ==
    IF Len(s) = 0 THEN Parsed("ErrSyntax", ZeroNum) ELSE ParseUintFrom(s, FirstNonDigit(s))

\* ParseInt once ParseUint has returned u for the text after the sign
ParseIntSigned(neg, u) ==
    IF u.err = "ErrSyntax" THEN Parsed("ErrSyntax", ZeroNum)
    ELSE IF ~neg /\ ~DigLess(u.n.mag, MinMag(64))
         THEN Parsed("ErrRange", Num(FALSE, MaxMag(64, TRUE), 0))
    ELSE IF neg /\ DigLess(MinMag(64), u.n.mag)
         THEN Parsed("ErrRange", Num(TRUE, MinMag(64), 0))
    ELSE Parsed(NoErr, Num(neg, u.n.mag, 0))

\* strconv.ParseInt(s, 10, 64)
ParseInt(s) ==
    IF Len(s) = 0 THEN Parsed("ErrSyntax", ZeroNum)
    ELSE ParseIntSigned(s[1] = 45, ParseUint(IF s[1] \in {43, 45} THEN Tail(s) ELSE s))

\* The decimal digits of the least value that rounds past the largest finite
\* float: 2^128 - 2^103 for 32 bits, 2^1024 - 2^970 for 64 bits.
FloatLimit(bits) ==
    IF bits = 32
    THEN <<3,4,0,2,8,2,3,5,6,7,7,9,7,3,3,6,6,1,6,3,
           7,5,3,9,3,9,5,4,5,8,1,4,2,5,6,8,4,4,8>>
    ELSE <<
           1,7,9,7,6,9,3,1,3,4,8,6,2,3,1,5,8,0,7,9,3,7,2,8,9,7,1,4,0,5,3,0,3,4,1,5,0,7,9,9,
           3,4,1,3,2,7,1,0,0,3,7,8,2,6,9,3,6,1,7,3,7,7,8,9,8,0,4,4,4,9,6,8,2,9,2,7,6,4,7,5,
           0,9,4,6,6,4,9,0,1,7,9,7,7,5,8,7,2,0,7,0,9,6,3,3,0,2,8,6,4,1,6,6,9,2,8,8,7,9,1,0,
           9,4,6,5,5,5,5,4,7,8,5,1,9,4,0,4,0,2,6,3,0,6,5,7,4,8,8,6,7,1,5,0,5,8,2,0,6,8,1,9,
           0,8,9,0,2,0,0,0,7,0,8,3,8,3,6,7,6,2,7,3,8,5,4,8,4,5,8,1,7,7,1,1,5,3,1,7,6,4,4,7,
           5,7,3,0,2,7,0,0,6,9,8,5,5,5,7,1,3,6,6,9,5,9,6,2,2,8,4,2,9,1,4,8,1,9,8,6,0,8,3,4,
           9,3,6,4,7,5,2,9,2,7,1,9,0,7,4,1,6,8,4,4,4,3,6,5,5,1,0,7,0,4,3,4,2,7,1,1,5,5,9,6,
           9,9,5,0,8,0,9,3,0,4,2,8,8,0,1,7,7,9,0,4,1,7,4,4,9,7,7,9,2
         >>

\* |0.mag * 10^top| is at or past the overflow limit lim
PastLimit(mag, top, lim) ==
    /\ Len(mag) > 0
    /\ \/ top > Len(lim)
       \/ top = Len(lim) /\ ~FracLess(mag, lim)

\* |mag * 10^exp| is at or past the overflow limit of a float of that width
FloatTooBig(bits, mag, exp) == PastLimit(mag, Len(mag) + exp, FloatLimit(bits))

\* the float of sign neg, mantissa digits lead (no leading zeros), exponent e
FloatOf(neg, lead, mag, e, bits) ==
    IF FloatTooBig(bits, mag, e + (Len(lead) - Len(mag))) THEN Parsed("ErrRange", ZeroNum)
    ELSE Parsed(NoErr, Num(neg, mag, e + (Len(lead) - Len(mag))))

\* the float of integer part ip, fraction part fp and exponent e10
FloatParts(neg, ip, fp, okExp, e10, bits) ==
    IF FirstNonDigit(ip) # 0 \/ FirstNonDigit(fp) # 0 \/ Len(ip) + Len(fp) = 0 \/ ~okExp
    THEN Parsed("ErrSyntax", ZeroNum)
    ELSE FloatOf(neg, StripZeros(DigitsOf(ip \o fp)),
                 StripTrailingZeros(StripZeros(DigitsOf(ip \o fp))), e10 - Len(fp), bits)

\* the mantissa split at its first '.', found at dot (0: none)
FloatDot(neg, mant, dot, okExp, e10, bits) ==
    FloatParts(neg, IF dot = 0 THEN mant ELSE SubSeq(mant, 1, dot - 1),
               IF dot = 0 THEN <<>> ELSE SubSeq(mant, dot + 1, Len(mant)), okExp, e10, bits)

\* the exponent digits eDig, of sign eNeg, read when they are digits
FloatExp(neg, mant, hasExp, eNeg, eDig, bits) ==
    IF hasExp /\ (Len(eDig) = 0 \/ FirstNonDigit(eDig) # 0)
    THEN FloatDot(neg, mant, FirstIn(mant, {46}), FALSE, 0, bits)
    ELSE FloatDot(neg, mant, FirstIn(mant, {46}), TRUE,
                  IF eNeg THEN 0 - DigitsNat(DigitsOf(eDig)) ELSE DigitsNat(DigitsOf(eDig)), bits)

\* the text after the mantissa's 'e'
FloatExpSign(neg, mant, hasExp, expS, bits) ==
    FloatExp(neg, mant, hasExp, Len(expS) > 0 /\ expS[1] = 45,
             IF Len(expS) > 0 /\ expS[1] \in {43, 45} THEN Tail(expS) ELSE expS, bits)

\* the text after the sign split at its first 'e' or 'E', found at ePos (0: none)
FloatBody(neg, body, ePos, bits) ==
    FloatExpSign(neg, IF ePos = 0 THEN body ELSE SubSeq(body, 1, ePos - 1), ePos # 0,
                 IF ePos = 0 THEN <<>> ELSE SubSeq(body, ePos + 1, Len(body)), bits)

FloatSigned(neg, body, bits) == FloatBody(neg, body, FirstIn(body, {69, 101}), bits)

\* strconv.ParseFloat(s, bits) for decimal input: [sign] digits [. digits]
\* [e [sign] digits] with at least one mantissa digit.  (Hexadecimal floats,
\* "inf" and "nan" are not among the texts drawn.)
ParseFloat(s, bits) ==
    IF Len(s) = 0 THEN Parsed("ErrSyntax", ZeroNum)
    ELSE FloatSigned(s[1] = 45, IF s[1] \in {43, 45} THEN Tail(s) ELSE s, bits)

(***************************************************************************)
(* Types (reflect.Type) and the values of the caller's target              *)
(***************************************************************************)

\* name: Type.Name(), "" for an unnamed type.  hook: the decode hooks in the
\* method set of the pointer to the type: "" none, "html" unhtml.Unmarshaler,
\* "text" encoding.TextUnmarshaler, "both".
Basic(k)       == [kind |-> k, name |-> k, hook |-> ""]
PtrTo(t)       == [kind |-> "ptr", name |-> "", hook |-> "", elem |-> t]
SliceOf(t)     == [kind |-> "slice", name |-> "", hook |-> "", elem |-> t]
ArrayOf(n, t)  == [kind |-> "array", name |-> "", hook |-> "", elem |-> t, len |-> n]
StructOf(n, f) == [kind |-> "struct", name |-> n, hook |-> "", fields |-> f]
Hooked(n, h)   == [kind |-> "string", name |-> n, hook |-> h]
EmptyIface     == [kind |-> "interface", name |-> "", hook |-> "", methods |-> 0]
ErrorIface     == [kind |-> "interface", name |-> "error", hook |-> "", methods |-> 1]
MapType        == [kind |-> "map", name |-> "", hook |-> ""]

\* a struct field: its unhtml tag ("" when it has none), whether xmlpath
\* compiles the tag, whether the field is exported, and its type
Fld(tag, ok, exp, t) == [tag |-> tag, compiles |-> ok, exported |-> exp, type |-> t]

IntKinds   == {"int", "int8", "int16", "int32", "int64"}
UintKinds  == {"uint", "uint8", "uint16", "uint32", "uint64", "uintptr"}
FloatKinds == {"float32", "float64"}
NumKinds   == IntKinds \cup UintKinds \cup FloatKinds

\* the width of a numeric kind (int, uint and uintptr as on a 64-bit build)
Bits(k) ==
    CASE k \in {"int8", "uint8"} -> 8
      [] k \in {"int16", "uint16"} -> 16
      [] k \in {"int32", "uint32", "float32"} -> 32
      [] OTHER -> 64

\* reflect.Zero
RECURSIVE Zero(_)
Zero(t) ==
    CASE t.kind \in NumKinds -> ZeroNum
      [] t.kind = "slice"    -> [arr |-> <<>>, len |-> 0]
      [] t.kind = "array"    -> [i \in 1..t.len |-> Zero(t.elem)]
      [] t.kind = "struct"   -> [i \in 1..Len(t.fields) |-> Zero(t.fields[i].type)]
      [] OTHER               -> <<>>

\* A value is: a Num (numeric kinds); a byte sequence (string); <<>> or <<v>>
\* (pointer: nil or the pointee; map: nil); <<>> or <<[type, val]>> (interface:
\* nil or the dynamic value it holds, with its type); [arr, len] (slice: the
\* backing array, whose length is the capacity, and the length); a sequence
\* of elements (array) or of fields (struct).
\* A path leads from the target's root to a part of it: a field or element
\* index, 1 for a pointer's pointee, "arr" then an index for a slice element,
\* 1 then "val" for the dynamic value of an interface.
RECURSIVE Get(_, _)
Get(v, p) == IF Len(p) = 0 THEN v ELSE Get(v[Head(p)], Tail(p))

RECURSIVE Put(_, _, _)
Put(v, p, x) == IF Len(p) = 0 THEN x ELSE [v EXCEPT ![Head(p)] = Put(v[Head(p)], Tail(p), x)]

(***************************************************************************)
(* reflect.Value                                                           *)
(***************************************************************************)

\* A reflect.Value.  loc says where the value lives:
\*   "mem"    the part of the target at path (addressable);
\*   "copy"   a copy of the part at path, as reflect.ValueOf(x) of a
\*            non-pointer x gives (not addressable);
\*   "tmpptr" a pointer value held by the Value itself, pointing to the
\*            part at path (reflect.ValueOf(&x), v.Addr());
\*   "tmpnil" a nil pointer held by the Value itself.
\* ro is reflect's flagRO: reached through an unexported field.
InvalidValue == [valid |-> FALSE, type |-> MapType, loc |-> "tmpnil", path |-> <<>>, ro |-> FALSE]

Val(t, loc, path, ro) == [valid |-> TRUE, type |-> t, loc |-> loc, path |-> path, ro |-> ro]

Kind(v) == IF v.valid THEN v.type.kind ELSE "invalid"

CanAddr(v) == v.valid /\ v.loc = "mem"

CanSet(v) == CanAddr(v) /\ ~v.ro

\* the value a handle denotes, read from the target
Read(mem, v) == Get(mem, v.path)

\* Value.IsNil of a pointer, interface, slice or map
IsNil(mem, v) ==
    CASE v.loc = "tmpnil" -> TRUE
      [] v.loc = "tmpptr" -> FALSE
      [] v.type.kind = "slice" -> Read(mem, v).arr = <<>> /\ Read(mem, v).len = 0
      [] OTHER -> Read(mem, v) = <<>>

\* Value.Elem of a pointer (the pointee, addressable) or of an interface (a
\* copy of the dynamic value, not addressable)
Elem(mem, v) ==
    CASE v.loc = "tmpnil" -> InvalidValue
      [] v.loc = "tmpptr" -> Val(v.type.elem, "mem", v.path, v.ro)
      [] IsNil(mem, v)    -> InvalidValue
      [] v.type.kind = "interface" ->
            Val(Read(mem, v)[1].type, "copy", v.path \o <<1, "val">>, v.ro)
      [] OTHER            -> Val(v.type.elem, "mem", v.path \o <<1>>, v.ro)

\* Value.Addr of an addressable value
Addr(v) == Val(PtrTo(v.type), "tmpptr", v.path, v.ro)

\* Value.Field(i) of a struct, i from 1
Field(v, i) ==
    Val(v.type.fields[i].type, v.loc, v.path \o <<i>>, v.ro \/ ~v.type.fields[i].exported)

\* Value.Index(i) of a slice (its elements are always addressable) or array, i from 0
Index(v, i) ==
    IF v.type.kind = "slice"
    THEN Val(v.type.elem, "mem", v.path \o <<"arr", i + 1>>, v.ro)
    ELSE Val(v.type.elem, v.loc, v.path \o <<i + 1>>, v.ro)

\* Value.Len and Value.Cap of a slice or array
LenOf(mem, v) == IF v.type.kind = "slice" THEN Read(mem, v).len ELSE v.type.len

CapOf(mem, v) == IF v.type.kind = "slice" THEN Len(Read(mem, v).arr) ELSE v.type.len

\* Type.NumMethod of the type of v
NumMethod(t) ==
    CASE t.kind = "ptr" -> IF t.elem.hook = "" THEN 0 ELSE 1
      [] t.kind = "interface" -> t.methods
      [] OTHER -> 0

(***************************************************************************)
(* Node content                                                            *)
(***************************************************************************)

\* []rune(s): the code points of a UTF-8 string, U+FFFD for a byte that
\* starts no valid encoding
RECURSIVE Runes(_)
Runes(b) ==
    LET cont(i) == i <= Len(b) /\ b[i] >= 128 /\ b[i] <= 191
        lo2     == IF b[1] = 224 THEN 160 ELSE IF b[1] = 240 THEN 144 ELSE 128
        hi2     == IF b[1] = 237 THEN 159 ELSE IF b[1] = 244 THEN 143 ELSE 191
        ok2     == Len(b) >= 2 /\ b[2] >= lo2 /\ b[2] <= hi2
    IN  IF b = <<>> THEN <<>>
        ELSE IF b[1] < 128 THEN <<b[1]>> \o Runes(Tail(b))
        ELSE IF b[1] >= 194 /\ b[1] <= 223 /\ cont(2)
             THEN <<(b[1] - 192) * 64 + (b[2] - 128)>> \o Runes(SubSeq(b, 3, Len(b)))
        ELSE IF b[1] >= 224 /\ b[1] <= 239 /\ ok2 /\ cont(3)
             THEN <<(b[1] - 224) * 4096 + (b[2] - 128) * 64 + (b[3] - 128)>>
                  \o Runes(SubSeq(b, 4, Len(b)))
        ELSE IF b[1] >= 240 /\ b[1] <= 244 /\ ok2 /\ cont(3) /\ cont(4)
             THEN <<(b[1] - 240) * 262144 + (b[2] - 128) * 4096 + (b[3] - 128) * 64 + (b[4] - 128)>>
                  \o Runes(SubSeq(b, 5, Len(b)))
        ELSE <<65533>> \o Runes(Tail(b))

\* a []byte or []rune value holding the given numbers; its capacity is its length
SliceOfNats(ns) == [arr |-> [i \in 1..Len(ns) |-> NumOfNat(ns[i])], len |-> Len(ns)]

\* reflect.ValueOf(root.Bytes()) stored in an interface{}
BytesInIface(b) == <<[type |-> SliceOf(Basic("uint8")), val |-> SliceOfNats(b)]>>

(***************************************************************************)
(* The session: state, saveError                                           *)
(***************************************************************************)

NilError == [kind |-> NoErr, id |-> 0]

\* A session as the operators thread it: the target's memory, firstError,
\* the frames of the unmarshalStruct and multinode loops that are running,
\* and whether the call has panicked.  errLog lists every non-nil error
\* handed to saveError, in order (each error value gets its position as id).
Session(mem) ==
    [mem |-> mem, firstError |-> NilError, errLog |-> <<>>, stack |-> <<>>, panicked |-> FALSE]

Panic(st) == [st EXCEPT !.panicked = TRUE]

\* a saveError that keeps the latest error instead of the first
saveErrorLast(st, k) ==
    IF k = NoErr THEN st
    ELSE [st EXCEPT !.errLog = Append(@, [kind |-> k, id |-> Len(@) + 1]),
                    !.firstError = [kind |-> k, id |-> Len(st.errLog) + 1]]

\* state.saveError: e is an error of kind k, nil when k is NoErr
saveError(st, k) ==
    LET e == [kind |-> k, id |-> Len(st.errLog) + 1]
    IN  IF k = NoErr THEN st
        ELSE [st EXCEPT !.errLog = Append(@, e),
                        !.firstError = IF @.kind = NoErr THEN e ELSE @]

\* Value.Set, SetInt, SetString...: panics unless the value is settable
SetValue(st, v, x) == IF CanSet(v) THEN [st EXCEPT !.mem = Put(@, v.path, x)] ELSE Panic(st)

(***************************************************************************)
(* indirect                                                                *)
(***************************************************************************)

IndirectResult(p, hook, v, mem) == [panicked |-> p, hook |-> hook, v |-> v, mem |-> mem]

\* the loop of indirect: hook is "html" (an Unmarshaler is returned), "text"
\* (a TextUnmarshaler) or "" (the value v is); with a hook, v is the pointer
\* whose method set holds it
RECURSIVE IndirectLoop(_, _)
IndirectLoop(mem, v) ==
    LET e      == Elem(mem, v)
        viaDyn == /\ Kind(v) = "interface" /\ ~IsNil(mem, v)
                  /\ Kind(e) = "ptr" /\ ~IsNil(mem, e) /\ Kind(Elem(mem, e)) = "ptr"
        mem1   == IF IsNil(mem, v) THEN Put(mem, v.path, <<Zero(v.type.elem)>>) ELSE mem
        h      == v.type.elem.hook
    IN  IF viaDyn THEN IndirectLoop(mem, e)
        ELSE IF Kind(v) # "ptr" THEN IndirectResult(FALSE, "", v, mem)
        ELSE IF Kind(e) # "ptr" /\ CanSet(v) THEN IndirectResult(FALSE, "", v, mem)
        ELSE IF IsNil(mem, v) /\ ~CanSet(v) THEN IndirectResult(TRUE, "", v, mem)
        ELSE IF NumMethod(v.type) > 0 /\ v.ro THEN IndirectResult(TRUE, "", v, mem1)
        ELSE IF NumMethod(v.type) > 0 /\ h \in {"html", "both"}
             THEN IndirectResult(FALSE, "html", v, mem1)
        ELSE IF NumMethod(v.type) > 0 /\ h = "text" THEN IndirectResult(FALSE, "text", v, mem1)
        ELSE IndirectLoop(mem1, Elem(mem1, v))

\* indirect: v.Type() of the zero Value panics
indirect(mem, v) ==
    IF ~v.valid THEN IndirectResult(TRUE, "", v, mem)
    ELSE IF Kind(v) # "ptr" /\ v.type.name # "" /\ CanAddr(v) THEN IndirectLoop(mem, Addr(v))
    ELSE IndirectLoop(mem, v)

(***************************************************************************)
(* state.unmarshal, state.unmarshalStruct, state.multinode                 *)
(***************************************************************************)

\* A frame of a running loop: fn "struct" (unmarshalStruct over the fields of
\* v) or "multi" (multinode over nodes into v); i is the index the loop is at,
\* from 0.
Frame(fn, v, nodes) == [fn |-> fn, v |-> v, i |-> 0, nodes |-> nodes]

Push(st, f) == [st EXCEPT !.stack = Append(@, f)]

Top(stack) == stack[Len(stack)]

\* m.UnmarshalHTML(b) / tm.UnmarshalText(b) of the caller's type: it either
\* takes the bytes into its receiver and returns nil, or returns an error
CallHook(st, recv, b, hookOK) ==
    IF hookOK THEN [st EXCEPT !.mem = Put(@, Elem(st.mem, recv).path, b)]
    ELSE saveError(st, "HookError")

\* Value.OverflowInt, OverflowUint, OverflowFloat for a slot of kind k.  n is
\* kept unrounded, so a float32 slot overflows from the rounding limit on.
OverflowInt(k, n) ==
    IF n.neg THEN DigLess(MinMag(Bits(k)), n.mag) ELSE DigLess(MaxMag(Bits(k), TRUE), n.mag)

OverflowUint(k, n) == DigLess(MaxMag(Bits(k), FALSE), n.mag)

OverflowFloat(k, n) == k = "float32" /\ FloatTooBig(32, n.mag, n.exp)

\* whether n overflows a numeric slot of kind k
Overflow(k, n) ==
    CASE k \in IntKinds  -> OverflowInt(k, n)
      [] k \in UintKinds -> OverflowUint(k, n)
      [] OTHER           -> OverflowFloat(k, n)

\* strconv's parse of the trimmed text s for a numeric slot of kind k
ParseFor(k, s) ==
    CASE k \in IntKinds  -> ParseInt(s)
      [] k \in UintKinds -> ParseUint(s)
      [] OTHER           -> ParseFloat(s, Bits(k))

\* state.unmarshalStruct up to its loop: the loop runs frame by frame
unmarshalStruct(st, value) ==
    IF Kind(value) # "struct" THEN saveError(st, "InvalidUnmarshalError")
    ELSE Push(st, Frame("struct", value, <<>>))

\* a multinode that lets a value that is no array or slice pass in silence
multinodeSilent(st, nodes, value) ==
    IF Kind(value) \notin {"array", "slice"} THEN st
    ELSE Push(st, Frame("multi", value, nodes))

\* state.multinode up to its loop
multinode(st, nodes, value) ==
    IF Kind(value) \notin {"array", "slice"} THEN saveError(st, "UnmarshalTypeError")
    ELSE Push(st, Frame("multi", value, nodes))

\* a numeric case of state.unmarshal once strconv has returned p:
\* if err != nil || value.OverflowX(n) { d.saveError(err); break }; value.SetX(n)
storeNumber(st, value, p) ==
    IF p.err # NoErr \/ Overflow(Kind(value), p.n) THEN saveError(st, p.err)
    ELSE SetValue(st, value, p.n)

\* the numeric cases of state.unmarshal
unmarshalNumber(st, node, value) ==
    storeNumber(st, value, ParseFor(Kind(value), TrimSpace(node)))

\* the slice case of state.unmarshal: only []byte and []rune are filled
unmarshalSlice(st, node, value) ==
    IF value.type.elem.kind = "uint8" THEN SetValue(st, value, SliceOfNats(node))
    ELSE IF value.type.elem.kind = "int32" THEN SetValue(st, value, SliceOfNats(Runes(node)))
    ELSE st

\* the interface case of state.unmarshal
unmarshalInterface(st, node, value) ==
    IF NumMethod(value.type) # 0 THEN saveError(st, "UnmarshalTypeError")
    ELSE SetValue(st, value, BytesInIface(node))

\* the switch of state.unmarshal on the kind of the value indirect returned
unmarshalKind(st, node, value) ==
    CASE Kind(value) = "struct"    -> unmarshalStruct(st, value)
      [] Kind(value) = "array"     -> st
      [] Kind(value) = "slice"     -> unmarshalSlice(st, node, value)
      [] Kind(value) = "interface" -> unmarshalInterface(st, node, value)
      [] Kind(value) = "string"    -> SetValue(st, value, node)
      [] Kind(value) \in NumKinds  -> unmarshalNumber(st, node, value)
      [] OTHER -> st

\* state.unmarshal after m, tm, value := indirect(rv) has returned r
unmarshalIndirected(st, node, rv, hookOK, r) ==
    IF r.panicked THEN Panic(st)
    ELSE IF r.hook # "" THEN CallHook(st, r.v, node, hookOK)
    ELSE IF ~rv.valid THEN saveError(st, "InvalidUnmarshalError")
    ELSE unmarshalKind(st, node, r.v)

unmarshalWith(st, node, rv, hookOK, r) ==
    unmarshalIndirected([st EXCEPT !.mem = r.mem], node, rv, hookOK, r)

\* state.unmarshal(root, rv), root's content being node
unmarshal(st, node, rv, hookOK) == unmarshalWith(st, node, rv, hookOK, indirect(st.mem, rv))

Advance(st) == [st EXCEPT !.stack[Len(st.stack)].i = @ + 1]

\* a field loop that reports a path without a match as UnmarshalRelative does
decodeFieldStrict(st, sf, field, nodes, hookOK) ==
    IF sf.tag = "" THEN st
    ELSE IF ~CanSet(field) THEN st
    ELSE IF ~sf.compiles THEN Panic(st)
    ELSE IF Len(nodes) > 1 THEN multinode(st, nodes, field)
    ELSE IF Len(nodes) < 1 THEN saveError(st, "NoNodesAvailable")
    ELSE unmarshal(st, nodes[1], field, hookOK)

\* the body of the field loop of state.unmarshalStruct for field, declared
\* as sf, nodes being what its path matches under the root
decodeField(st, sf, field, nodes, hookOK) ==
    IF sf.tag = "" THEN st
    ELSE IF ~CanSet(field) THEN st
    ELSE IF ~sf.compiles THEN Panic(st)
    ELSE IF Len(nodes) > 1 THEN multinode(st, nodes, field)
    ELSE IF Len(nodes) < 1 THEN st
    ELSE unmarshal(st, nodes[1], field, hookOK)

\* field i of frame f
fieldAt(st, f, nodes, hookOK) ==
    decodeField(st, f.v.type.fields[f.i + 1], Field(f.v, f.i + 1), nodes, hookOK)

\* a field loop that returns at the first field it reaches after an error
structFieldUntilError(st, nodes, hookOK) ==
    IF st.firstError.kind # NoErr
    THEN [st EXCEPT !.stack[Len(st.stack)].i = Len(Top(st.stack).v.type.fields)]
    ELSE fieldAt(Advance(st), Top(st.stack), nodes, hookOK)

\* one turn of the field loop of state.unmarshalStruct: field i of the frame
\* on top, nodes being what the field's path matches under the root
structField(st, nodes, hookOK) == fieldAt(Advance(st), Top(st.stack), nodes, hookOK)

\* a growth by half without the least capacity of 4
GrowCapNoFloor(cap) == cap + cap \div 2

\* the capacity multinode grows a full slice to
GrowCap(cap) == IF cap + cap \div 2 < 4 THEN 4 ELSE cap + cap \div 2

\* reflect.MakeSlice(t, len, newcap) with reflect.Copy(newv, value)
MakeSlice(t, old, newcap) ==
    [arr |-> [j \in 1..newcap |-> IF j <= old.len THEN old.arr[j] ELSE Zero(t.elem)],
     len |-> old.len]

GrowFrom(st, value, old) == SetValue(st, value, MakeSlice(value.type, old, GrowCap(Len(old.arr))))

\* newv := reflect.MakeSlice(...); reflect.Copy(newv, value); value.Set(newv)
Grow(st, value) == GrowFrom(st, value, Read(st.mem, value))

\* Value.SetLen(n): panics unless settable and n within the capacity
SetLen(st, value, n) ==
    IF ~CanSet(value) \/ n > CapOf(st.mem, value) THEN Panic(st)
    ELSE [st EXCEPT !.mem = Put(@, value.path \o <<"len">>, n)]

\* if i >= value.Cap() { grow }
elemGrow(st, value, i) ==
    IF Kind(value) = "slice" /\ i >= CapOf(st.mem, value) THEN Grow(st, value) ELSE st

\* if i >= value.Len() { value.SetLen(i + 1) }
elemLen(st, value, i) ==
    IF ~st.panicked /\ Kind(value) = "slice" /\ i >= LenOf(st.mem, value)
    THEN SetLen(st, value, i + 1) ELSE st

\* if i < value.Len() { d.unmarshal(node, value.Index(i)) }
elemDecode(st, f, hookOK) ==
    IF ~st.panicked /\ f.i < LenOf(st.mem, f.v)
    THEN unmarshal(st, f.nodes[f.i + 1], Index(f.v, f.i), hookOK)
    ELSE st

\* node i of frame f
elemAt(st, f, hookOK) == elemDecode(elemLen(elemGrow(st, f.v, f.i), f.v, f.i), f, hookOK)

\* one turn of the node loop of state.multinode: node i of the frame on top
multinodeElem(st, hookOK) == elemAt(Advance(st), Top(st.stack), hookOK)

\* whether the loop of a frame has run to its end
Finished(f) ==
    IF f.fn = "struct" THEN f.i >= Len(f.v.type.fields) ELSE f.i >= Len(f.nodes)

\* return from every loop that has run to its end
RECURSIVE Unwind(_)
Unwind(st) ==
    IF st.panicked \/ Len(st.stack) = 0 \/ ~Finished(Top(st.stack)) THEN st
    ELSE Unwind([st EXCEPT !.stack = SubSeq(@, 1, Len(@) - 1)])

(***************************************************************************)
(* The inputs drawn: node texts, matched node lists, targets               *)
(***************************************************************************)

MaxNodes == 5

MaxFieldNodes == 2

\* "7", " 12\n", "-5", "999999999999", "99999999999999999999", "x", "1e40",
\* "2.5", "hé" (é is the two bytes C3 A9)
Texts ==
    { <<55>>, <<32, 49, 50, 10>>, <<45, 53>>,
      <<57, 57, 57, 57, 57, 57, 57, 57, 57, 57, 57, 57>>,
      <<57, 57, 57, 57, 57, 57, 57, 57, 57, 57, 57, 57, 57, 57, 57, 57, 57, 57, 57, 57>>,
      <<120>>, <<49, 101, 52, 48>>, <<50, 46, 53>>, <<104, 195, 169>> }

\* the texts of the nodes a struct field's path matches: "7", " 12\n", "x", "999999999999"
FieldTexts ==
    { <<55>>, <<32, 49, 50, 10>>, <<120>>, <<57, 57, 57, 57, 57, 57, 57, 57, 57, 57, 57, 57>> }

\* the texts of the nodes of a long match: "7", " 12\n", "x"
ListTexts == { <<55>>, <<32, 49, 50, 10>>, <<120>> }

ListsOver(S, lo, hi) == UNION { [1..n -> S] : n \in lo..hi }

\* what a struct field's path may match
FieldMatches == ListsOver(FieldTexts, 0, MaxFieldNodes)

\* what the path of UnmarshalRelative may match.  Of a match into a target
\* that is no slice or array only the first node is read, so the long
\* matches are drawn for slices and arrays alone (and, to keep the runs
\* finite, not for those whose elements are structs).
TopMatches(long) ==
    ListsOver(Texts, 0, 1) \cup ListsOver(FieldTexts, 2, 2)
        \cup (IF long THEN ListsOver(ListTexts, 3, MaxNodes) ELSE {})

\* the outcomes to draw for the caller's hook: one when no hook is called
HookOutcomes(hook) == IF hook = "" THEN {TRUE} ELSE BOOLEAN

\* whether a slot of type t holds a type with a decode hook, under pointers
RECURSIVE MayHook(_)
MayHook(t) == t.hook # "" \/ (t.kind = "ptr" /\ MayHook(t.elem))

Int8    == Basic("int8")
Hook    == Hooked("Hook", "html")
THook   == Hooked("THook", "text")
Nine    == NumOfNat(9)

Inner == StructOf("Inner", << Fld("v", TRUE, TRUE, Basic("uint8")), Fld("", TRUE, TRUE, Basic("string")) >>)

\* struct { A int8 `unhtml:"a"`; B string `unhtml:"b"`; C int8; d int8 `unhtml:"d"` }
StructA ==
    StructOf("", << Fld("a", TRUE, TRUE, Int8), Fld("b", TRUE, TRUE, Basic("string")),
                    Fld("", TRUE, TRUE, Int8), Fld("d", TRUE, FALSE, Int8) >>)

\* struct { P *int8 `unhtml:"p"`; L []int8 `unhtml:"l"`; U uint16 `unhtml:"u"` }
StructB ==
    StructOf("B", << Fld("p", TRUE, TRUE, PtrTo(Int8)), Fld("l", TRUE, TRUE, SliceOf(Int8)),
                     Fld("u", TRUE, TRUE, Basic("uint16")) >>)

\* struct { H Hook `unhtml:"h"`; I interface{} `unhtml:"i"`; E error `unhtml:"e"`;
\*          M map[string]int `unhtml:"m"`; T *THook `unhtml:"t"` }
StructC ==
    StructOf("C", << Fld("h", TRUE, TRUE, Hook), Fld("i", TRUE, TRUE, EmptyIface),
                     Fld("e", TRUE, TRUE, ErrorIface), Fld("m", TRUE, TRUE, MapType),
                     Fld("t", TRUE, TRUE, PtrTo(THook)) >>)

\* struct { R [2]int8 `unhtml:"r"`; N Inner `unhtml:"n"`; X int8 `unhtml:"["`; Y int8 `unhtml:"y"` }
StructD ==
    StructOf("D", << Fld("r", TRUE, TRUE, ArrayOf(2, Int8)), Fld("n", TRUE, TRUE, Inner),
                     Fld("[", FALSE, TRUE, Int8), Fld("y", TRUE, TRUE, Int8) >>)

\* struct { Q **int8 `unhtml:"q"`; J interface{} `unhtml:"j"`; F float32 `unhtml:"f"` }
StructE ==
    StructOf("E", << Fld("q", TRUE, TRUE, PtrTo(PtrTo(Int8))), Fld("j", TRUE, TRUE, EmptyIface),
                     Fld("f", TRUE, TRUE, Basic("float32")) >>)

Target(t, init) == [type |-> t, init |-> init]

\* the caller's variables a call may be given: each a type and the value the
\* variable holds before the call
Targets ==
    << Target(Int8, Nine),
       Target(Basic("int32"), ZeroNum),
       Target(Basic("int"), ZeroNum),
       Target(Basic("uint8"), Nine),
       Target(Basic("uint64"), ZeroNum),
       Target(Basic("float32"), ZeroNum),
       Target(Basic("float64"), ZeroNum),
       Target(Basic("string"), <<>>),
       Target(PtrTo(Int8), <<>>),
       Target(PtrTo(Int8), <<Nine>>),
       Target(Hook, <<>>),
       Target(THook, <<>>),
       Target(SliceOf(Int8), [arr |-> <<>>, len |-> 0]),
       Target(SliceOf(Int8), [arr |-> <<Nine, Nine>>, len |-> 1]),
       Target(SliceOf(Int8), [arr |-> <<Nine, Nine, Nine>>, len |-> 3]),
       Target(SliceOf(Basic("uint8")), [arr |-> <<>>, len |-> 0]),
       Target(SliceOf(Basic("int32")), [arr |-> <<>>, len |-> 0]),
       Target(SliceOf(PtrTo(Int8)), [arr |-> <<>>, len |-> 0]),
       Target(SliceOf(Inner), [arr |-> <<>>, len |-> 0]),
       Target(ArrayOf(2, Int8), <<Nine, Nine>>),
       Target(StructA, <<Nine, <<>>, Nine, Nine>>),
       Target(StructB, <<<<>>, [arr |-> <<>>, len |-> 0], ZeroNum>>),
       Target(StructC, << <<>>, <<>>, <<>>, <<>>, <<>> >>),
       Target(StructD, << <<Nine, Nine>>, <<Nine, <<>>>>, Nine, Nine >>),
       Target(StructE, << << <<>> >>,
                          <<[type |-> PtrTo(PtrTo(Int8)), val |-> << <<Nine>> >>]>>,
                          ZeroNum >>) >>

\* how the caller passes its variable x: &x, x itself, or nil instead
Modes == {"addr", "value", "nil"}

\* reflect.ValueOf(res)
ValueOf(t, mem, mode) ==
    CASE mode = "nil"   -> InvalidValue
      [] mode = "addr"  -> Val(PtrTo(t), "tmpptr", <<>>, FALSE)
      [] t.kind = "ptr" /\ Len(mem) = 0 -> Val(t, "tmpnil", <<>>, FALSE)
      [] t.kind = "ptr" -> Val(t, "tmpptr", <<1>>, FALSE)
      [] OTHER -> Val(t, "copy", <<>>, FALSE)

(***************************************************************************)
(* The decode call                                                         *)
(***************************************************************************)

VARIABLES
    pc,          \* "idle" before the call, "run" inside it, "done" after it
                 \* has returned, "panic" after it has panicked
    tgt,         \* the caller's variable: an index into Targets
    mem,         \* the value of the caller's variable
    firstError,  \* state.firstError
    errLog,      \* every non-nil error handed to saveError so far
    stack,       \* the loops of unmarshalStruct and multinode that are running
    ret,         \* the error the call returned
    inp          \* the inputs of the latest step: the action, how the caller
                 \* passed its variable, the reflect.Value the step was given,
                 \* the contents of the matched nodes, the hook's outcome and
                 \* whether the path compiled

vars == <<pc, tgt, mem, firstError, errLog, stack, ret, inp>>

TargetType == Targets[tgt].type

Input(act, mode, slot, nodes, hookOK, pathOK) ==
    [act |-> act, mode |-> mode, slot |-> slot, nodes |-> nodes, hookOK |-> hookOK,
     pathOK |-> pathOK]

Init ==
    /\ pc = "idle"
    /\ tgt \in 1..Len(Targets)
    /\ mem = Targets[tgt].init
    /\ firstError = NilError
    /\ errLog = <<>>
    /\ stack = <<>>
    /\ ret = NilError
    /\ inp = Input("none", "addr", InvalidValue, <<>>, TRUE, TRUE)

\* the session st is what the call holds after a step: the call goes on, has
\* panicked, or returns firstError
Committed(st) ==
    /\ mem' = st.mem
    /\ firstError' = st.firstError
    /\ errLog' = st.errLog
    /\ stack' = st.stack
    /\ pc' = IF st.panicked THEN "panic" ELSE IF Len(st.stack) = 0 THEN "done" ELSE "run"
    /\ ret' = IF ~st.panicked /\ Len(st.stack) = 0 THEN st.firstError ELSE ret

Commit(st) == Committed(Unwind(st))

\* the call returns err at once, outside the session
ReturnNow(m, err) ==
    /\ mem' = m
    /\ pc' = "done"
    /\ ret' = [kind |-> err, id |-> 0]
    /\ UNCHANGED <<firstError, errLog, stack>>

\* Decoder.Unmarshal(res) with rv == reflect.ValueOf(res): node is the content
\* of the document's root
unmarshalRoot(mode, node, rv) ==
    \E hookOK \in HookOutcomes(indirect(mem, rv).hook) :
       /\ inp' = Input("Unmarshal", mode, rv, <<node>>, hookOK, TRUE)
       /\ Commit(unmarshal(Session(mem), node, rv, hookOK))

Unmarshal ==
    /\ pc = "idle"
    /\ \E mode \in Modes, node \in Texts : unmarshalRoot(mode, node, ValueOf(TargetType, mem, mode))
    /\ UNCHANGED tgt

\* isSlice := v.Kind() == reflect.Slice || v.Kind() == reflect.Array
IsSlice(r) == Kind(r.v) \in {"slice", "array"}

\* the return of a hook UnmarshalRelative found on the target
relativeHook(r, node, hookOK) ==
    IF hookOK THEN ReturnNow(Put(r.mem, Elem(r.mem, r.v).path, node), NoErr)
    ELSE ReturnNow(r.mem, "HookError")

\* an UnmarshalRelative that hands every slice and array to multinode
relativeNodesCollectAll(r, nodes, hookOK) ==
    IF Len(nodes) = 0 THEN ReturnNow(r.mem, "NoNodesAvailable")
    ELSE IF r.hook # "" THEN relativeHook(r, nodes[1], hookOK)
    ELSE IF ~IsSlice(r) THEN Commit(unmarshal(Session(r.mem), nodes[1], r.v, hookOK))
    ELSE Commit(multinode(Session(r.mem), nodes, r.v))

\* Decoder.UnmarshalRelative from the node loop on: r is what indirect
\* returned, nodes the contents of the nodes collected
relativeNodes(r, nodes, hookOK) ==
    IF Len(nodes) = 0 THEN ReturnNow(r.mem, "NoNodesAvailable")
    ELSE IF r.hook # "" THEN relativeHook(r, nodes[1], hookOK)
    ELSE IF ~IsSlice(r) THEN Commit(unmarshal(Session(r.mem), nodes[1], r.v, hookOK))
    ELSE IF r.v.type.elem.kind \in {"uint8", "int32"}
         THEN Commit(unmarshal(Session(r.mem), nodes[1], r.v, hookOK))
    ELSE Commit(multinode(Session(r.mem), nodes, r.v))

\* the nodes the loop over the path's matches collects: all of them for a
\* slice or array, else the first alone
Collected(r, matches) ==
    IF IsSlice(r) \/ Len(matches) = 0 THEN matches ELSE <<matches[1]>>

\* the body of Decoder.UnmarshalRelative once the path has compiled: matches
\* are the contents of the nodes the path matches, in document order
unmarshalRelative(r, matches, hookOK) ==
    IF r.panicked THEN Commit(Panic(Session(r.mem)))
    ELSE relativeNodes(r, Collected(r, matches), hookOK)

\* whether the long matches are drawn for the target indirect returned as r
Long(r) ==
    /\ ~r.panicked
    /\ r.hook = ""
    /\ IsSlice(r)
    /\ r.v.type.elem.kind # "struct"

\* Decoder.UnmarshalRelative(path, res): either the path does not compile and
\* the call returns xmlpath's error, or it matches some nodes
relativeCall(mode, rv, r) ==
    \/ /\ inp' = Input("UnmarshalRelative", mode, rv, <<>>, TRUE, FALSE)
       /\ ReturnNow(mem, "CompileError")
    \/ \E matches \in TopMatches(Long(r)), hookOK \in HookOutcomes(r.hook) :
          /\ inp' = Input("UnmarshalRelative", mode, rv, matches, hookOK, TRUE)
          /\ unmarshalRelative(r, matches, hookOK)

UnmarshalRelative ==
    /\ pc = "idle"
    /\ \E mode \in Modes :
          relativeCall(mode, ValueOf(TargetType, mem, mode),
                       indirect(mem, ValueOf(TargetType, mem, mode)))
    /\ UNCHANGED tgt

\* the session the running call holds
Running ==
    [mem |-> mem, firstError |-> firstError, errLog |-> errLog, stack |-> stack,
     panicked |-> FALSE]

\* the field the unmarshalStruct on top is at, and its declaration
CurField == Field(Top(stack).v, Top(stack).i + 1)

CurDecl == Top(stack).v.type.fields[Top(stack).i + 1]

\* the element the multinode on top is at
CurElem == Index(Top(stack).v, Top(stack).i)

\* whether the field loop evaluates the path of the field it is at
Queried(field, sf) == sf.tag # "" /\ CanSet(field) /\ sf.compiles

\* one turn of the field loop of the unmarshalStruct on top; a field whose
\* path is not evaluated matches nothing
StructField ==
    /\ pc = "run"
    /\ Top(stack).fn = "struct"
    /\ \E nodes \in (IF Queried(CurField, CurDecl) THEN FieldMatches ELSE {<<>>}) :
          \E hookOK \in HookOutcomes(IF Len(nodes) = 1 THEN indirect(mem, CurField).hook ELSE "") :
             /\ inp' = Input("StructField", inp.mode, CurField, nodes, hookOK, CurDecl.compiles)
             /\ Commit(structField(Running, nodes, hookOK))
    /\ UNCHANGED tgt

\* one turn of the node loop of the multinode on top
MultinodeElem ==
    /\ pc = "run"
    /\ Top(stack).fn = "multi"
    /\ \E hookOK \in (IF MayHook(CurElem.type) THEN BOOLEAN ELSE {TRUE}) :
          /\ inp' = Input("MultinodeElem", inp.mode, CurElem, <<Top(stack).nodes[Top(stack).i + 1]>>,
                         hookOK, TRUE)
          /\ Commit(multinodeElem(Running, hookOK))
    /\ UNCHANGED tgt

Next == Unmarshal \/ UnmarshalRelative \/ StructField \/ MultinodeElem

Spec == Init /\ [][Next]_vars

(***************************************************************************)
(* The claims                                                              *)
(***************************************************************************)

\* the call is about to take a turn of a field loop, of a node loop
AtField == pc = "run" /\ Top(stack).fn = "struct"

AtElem == pc = "run" /\ Top(stack).fn = "multi"

\* the value state.unmarshal decodes into when it is handed rv
Walked(m, rv) == indirect(m, rv).v

\* the trimmed text of node fails to parse, or parses to a value that
\* overflows a slot of kind k
BadNumber(k, node) ==
    \/ ParseFor(k, TrimSpace(node)).err # NoErr
    \/ Overflow(k, ParseFor(k, TrimSpace(node)).n)

\* the step hands its one node to state.unmarshal, which finds a numeric slot
DecodesNumber ==
    /\ inp'.act \in {"Unmarshal", "UnmarshalRelative", "StructField"}
    /\ inp'.pathOK
    /\ Len(inp'.nodes) = 1
    /\ inp'.slot.valid
    /\ ~indirect(mem, inp'.slot).panicked
    /\ indirect(mem, inp'.slot).hook = ""
    /\ Kind(Walked(mem, inp'.slot)) \in NumKinds

\* C1: when state.unmarshal decodes a node into a numeric slot and the
\* trimmed text fails to parse or overflows the slot's width, an error is
\* recorded on the session (a call that returns then returns an error) and
\* the slot keeps its value.
C1_NumericFailureRecorded ==
    [][DecodesNumber /\ BadNumber(Kind(Walked(mem, inp'.slot)), inp'.nodes[1])
         => /\ Len(errLog') > Len(errLog)
            /\ firstError'.kind # NoErr
            /\ (pc' = "done" => ret'.kind # NoErr)
            /\ Get(mem', Walked(mem, inp'.slot).path) = Get(mem, Walked(mem, inp'.slot).path)]_vars

\* the caller passes no valid writable slot: nil, a nil pointer, or a value
\* that is no pointer
InvalidTarget(mode) ==
    \/ mode = "nil"
    \/ mode = "value" /\ (TargetType.kind # "ptr" \/ Len(mem) = 0)

\* C2: a call of Unmarshal or UnmarshalRelative whose target is no valid
\* writable slot returns InvalidUnmarshalError at once and writes nothing.
C2_InvalidTargetRejected ==
    [][pc = "idle" /\ inp'.pathOK /\ InvalidTarget(inp'.mode)
         => pc' = "done" /\ ret'.kind = "InvalidUnmarshalError" /\ mem' = mem]_vars

\* C3: a slice that N >= 1 nodes are matched for, as a struct field or as the
\* target of UnmarshalRelative, has length exactly N after the decode: after
\* the field's turn when one node matched, after the turn of the last node
\* when multinode binds them.
C3_SliceHoldsEveryNode ==
    [][/\ (AtField /\ Queried(CurField, CurDecl) /\ Kind(CurField) = "slice"
             /\ Len(inp'.nodes) = 1 /\ pc' # "panic")
          => LenOf(mem', CurField) = 1
       /\ (AtElem /\ Kind(Top(stack).v) = "slice" /\ pc' # "panic"
             /\ Top(stack).i + 1 = Len(Top(stack).nodes))
          => LenOf(mem', Top(stack).v) = Len(Top(stack).nodes)]_vars

\* C4: firstError is the first error handed to saveError and no later one
\* (nil while none was handed over), and a call that returns after an error
\* was recorded returns exactly that first error.
C4_FirstErrorWins ==
    /\ firstError = (IF Len(errLog) = 0 THEN NilError ELSE errLog[1])
    /\ (pc = "done" /\ Len(errLog) > 0 => ret = errLog[1])

C4_Witness ==
    /\ pc = "done"
    /\ Len(errLog) >= 2
    /\ errLog[2].kind # errLog[1].kind
    /\ ret = errLog[1]

\* the length of the loop of a frame, and the turns the running loops have left
Size(f) == IF f.fn = "struct" THEN Len(f.v.type.fields) ELSE Len(f.nodes)

RECURSIVE Remaining(_)
Remaining(stk) ==
    IF Len(stk) = 0 THEN 0
    ELSE Size(Top(stk)) - Top(stk).i + Remaining(SubSeq(stk, 1, Len(stk) - 1))

\* the turn leaves the other fields of the struct, the earlier elements of
\* the slice or array, as they were
SiblingsKept ==
    IF Top(stack).fn = "struct"
    THEN \A j \in 1..Len(Top(stack).v.type.fields) :
            j # Top(stack).i + 1 =>
               Get(mem', Top(stack).v.path \o <<j>>) = Get(mem, Top(stack).v.path \o <<j>>)
    ELSE \A k \in 0..(Top(stack).i - 1) :
            k < LenOf(mem, Top(stack).v) =>
               Read(mem', Index(Top(stack).v, k)) = Read(mem, Index(Top(stack).v, k))

\* the turn hands one node to state.unmarshal for a slot of a string or
\* numeric type without a hook
BindsOne ==
    /\ \/ AtField /\ Queried(CurField, CurDecl) /\ Len(inp'.nodes) = 1
       \/ AtElem /\ Top(stack).i < LenOf(mem', Top(stack).v)
    /\ pc' # "panic"
    /\ inp'.slot.type.kind \in {"string"} \cup NumKinds
    /\ inp'.slot.type.hook = ""

\* C5: decoding is best-effort.  Whatever errors were recorded before a turn
\* or in it, the turn takes just one turn off the loops (the later fields
\* and elements are still visited), leaves the siblings as they are, and a
\* slot whose own node decodes holds the decoded value.
C5_BestEffort ==
    [][pc = "run"
         => /\ (pc' # "panic" => Remaining(stack') >= Remaining(stack) - 1)
            /\ SiblingsKept
            /\ (BindsOne /\ inp'.slot.type.kind = "string"
                  => Get(mem', inp'.slot.path) = inp'.nodes[1])
            /\ (BindsOne /\ inp'.slot.type.kind \in NumKinds
                  /\ ~BadNumber(inp'.slot.type.kind, inp'.nodes[1])
                  => Get(mem', inp'.slot.path)
                       = ParseFor(inp'.slot.type.kind, TrimSpace(inp'.nodes[1])).n)]_vars

\* struct { A int8; B string; ... }: A's node did not parse, B holds its node
C5_Witness ==
    /\ pc = "done"
    /\ TargetType.kind = "struct"
    /\ TargetType.name = ""
    /\ ret.kind = "ErrSyntax"
    /\ mem[1] = Nine
    /\ mem[2] = <<55>>

\* C6: a turn of the field loop at a field without a tag, or at a field whose
\* path matches no node, writes nothing, records no error and does not
\* panic; and the fields without a tag of a struct target hold their
\* pre-call values throughout the call.
C6_SkippedFieldUntouched ==
    [][/\ (AtField /\ (CurDecl.tag = "" \/ (Queried(CurField, CurDecl) /\ Len(inp'.nodes) = 0)))
          => /\ mem' = mem
             /\ errLog' = errLog
             /\ firstError' = firstError
             /\ pc' # "panic"
       /\ TargetType.kind = "struct"
          => \A j \in 1..Len(TargetType.fields) :
                TargetType.fields[j].tag = "" => mem'[j] = Targets[tgt].init[j]]_vars

\* struct B's last field U matched nothing after an earlier field failed
C6_Witness ==
    /\ inp.act = "StructField"
    /\ TargetType.name = "B"
    /\ inp.slot.path = <<3>>
    /\ CanSet(inp.slot)
    /\ inp.pathOK
    /\ inp.nodes = <<>>
    /\ firstError.kind # NoErr
    /\ mem[3] = ZeroNum
    /\ pc = "done"

\* what Decoder.UnmarshalRelative does once the path has compiled, r being
\* what indirect returned for the target and collect whether the target gets
\* every matched node through multinode: without a match it returns
\* NoNodesAvailable and leaves the target alone; a target with a hook gets
\* the first node; a collecting target enters multinode with all the nodes;
\* any other is decoded from the first node alone by state.unmarshal
RelativeBinds(r, nodes, hookOK, collect) ==
    IF r.panicked THEN pc' = "panic"
    ELSE IF Len(nodes) = 0
         THEN pc' = "done" /\ ret'.kind = "NoNodesAvailable" /\ mem' = mem
    ELSE IF r.hook # "" THEN pc' = "done" /\ Len(stack') = 0
    ELSE IF collect
         THEN /\ pc' = "run"
              /\ stack' = <<Frame("multi", r.v, nodes)>>
              /\ mem' = mem
              /\ Len(errLog') = 0
    ELSE Commit(unmarshal(Session(mem), nodes[1], r.v, hookOK))

C8_PointerFieldDecoded ==
    [][AtField /\ Queried(CurField, CurDecl) /\ Kind(CurField) = "ptr"
         /\ ~MayHook(CurField.type) /\ Len(inp'.nodes) = 1
         => /\ pc' # "panic"
            /\ Kind(Walked(mem, CurField)) # "ptr"
            /\ CanSet(Walked(mem, CurField))
            /\ ~IsNil(mem', CurField)]_vars

\* C9: a turn of the field loop at a settable tagged field whose path matches
\* two or more nodes enters multinode with them when the field is a slice or
\* array; for any other field it records UnmarshalTypeError, writes nothing,
\* and the loop goes on to the next field.
C9_ManyNodesGoToMultinode ==
    [][AtField /\ Queried(CurField, CurDecl) /\ Len(inp'.nodes) >= 2
         => IF Kind(CurField) \in {"slice", "array"}
            THEN /\ pc' = "run"
                 /\ stack' = Append([stack EXCEPT ![Len(stack)].i = @ + 1],
                                    Frame("multi", CurField, inp'.nodes))
                 /\ mem' = mem
                 /\ errLog' = errLog
            ELSE /\ errLog' = Append(errLog, [kind |-> "UnmarshalTypeError",
                                              id |-> Len(errLog) + 1])
                 /\ firstError'.kind # NoErr
                 /\ mem' = mem
                 /\ pc' # "panic"
                 /\ (Top(stack).i + 1 < Len(Top(stack).v.type.fields)
                       => pc' = "run" /\ stack' = [stack EXCEPT ![Len(stack)].i = @ + 1])]_vars

\* a string field matched two nodes: the error is recorded, the field is as
\* it was and the loop is at the next field
C9_Witness ==
    /\ inp.act = "StructField"
    /\ Len(inp.nodes) = 2
    /\ Kind(inp.slot) = "string"
    /\ pc = "run"
    /\ Len(errLog) > 0
    /\ errLog[Len(errLog)].kind = "UnmarshalTypeError"
    /\ Get(mem, inp.slot.path) = <<>>

\* the least of 4 and above
AtLeast4(n) == IF n < 4 THEN 4 ELSE n

\* C10: a turn of multinode at node i.  For a slice that can be set, the
\* capacity becomes max(4, cap + cap/2) exactly when i >= cap, the length
\* becomes i + 1 exactly when i >= len, and the turn does not panic; for any
\* slice, i < len <= cap holds when the element is written.  For an array, a
\* node at or past the array's length is dropped: nothing is written, no
\* error is recorded; and the array keeps its length.
C10_WritesInBounds ==
    [][AtElem
         => IF Kind(Top(stack).v) = "slice"
            THEN /\ CanSet(Top(stack).v)
                    => /\ pc' # "panic"
                       /\ CapOf(mem', Top(stack).v)
                            = (IF Top(stack).i >= CapOf(mem, Top(stack).v)
                               THEN AtLeast4(CapOf(mem, Top(stack).v)
                                             + CapOf(mem, Top(stack).v) \div 2)
                               ELSE CapOf(mem, Top(stack).v))
                       /\ LenOf(mem', Top(stack).v)
                            = (IF Top(stack).i >= LenOf(mem, Top(stack).v)
                               THEN Top(stack).i + 1
                               ELSE LenOf(mem, Top(stack).v))
                 /\ pc' # "panic"
                    => /\ Top(stack).i < LenOf(mem', Top(stack).v)
                       /\ LenOf(mem', Top(stack).v) <= CapOf(mem', Top(stack).v)
            ELSE /\ Len(Read(mem', Top(stack).v)) = Top(stack).v.type.len
                 /\ Top(stack).i >= Top(stack).v.type.len
                    => mem' = mem /\ errLog' = errLog /\ pc' # "panic"]_vars

\* a slice that started empty holds five nodes in a capacity grown 0, 4, 6
C10_Witness ==
    /\ inp.act = "MultinodeElem"
    /\ inp.mode = "addr"
    /\ TargetType.kind = "slice"
    /\ mem.len = 5
    /\ Len(mem.arr) = 6

====
